---------------------------- MODULE Spec2Model ----------------------------
(***************************************************************************)
(* Model of the forward projector (analytics/performance.py,               *)
(* project_portfolio_with_taxes), of the return calculator and the         *)
(* summary statistics (calculate_portfolio_returns, performance_stats),    *)
(* and of the analysis handlers (backend/api/routers/portfolio.py,         *)
(* analyze_portfolio and analyze_aggregate_portfolio), each under its own  *)
(* specification: Spec, SpecReturns, SpecAnalyze, SpecAggregate, and       *)
(* SpecConcurrent for two requests in flight at once.                      *)
(*                                                                         *)
(* Money amounts and rates are exact rationals <<n, d>> in lowest terms    *)
(* with d > 0, so that equalities between amounts are decided by the       *)
(* arithmetic the code performs and not by a rounding mode.                *)
(***************************************************************************)
EXTENDS Integers, Sequences, FiniteSets, TLC

(***************************************************************************)
(* Bounds of the model.                                                    *)
(***************************************************************************)
\* Largest horizon `years` passed to the projector.
MaxYears == 3

\* Most portfolios in one aggregate request.
MaxPortfolios == 2

(***************************************************************************)
(* Exact rational arithmetic.                                              *)
(***************************************************************************)
Abs(n) == IF n < 0 THEN -n ELSE n

RECURSIVE Gcd(_, _)
Gcd(a, b) == IF b = 0 THEN a ELSE Gcd(b, a % b)

\* The rational n/d (d # 0) in lowest terms with a positive denominator.
Rat(n, d) ==
    LET g == Gcd(Abs(n), Abs(d))
        s == IF d < 0 THEN -1 ELSE 1
    IN  <<(s * n) \div g, (s * d) \div g>>

Zero == <<0, 1>>
One == <<1, 1>>

RAdd(x, y) ==
    LET g == Gcd(x[2], y[2])
    IN  Rat(x[1] * (y[2] \div g) + y[1] * (x[2] \div g), (x[2] \div g) * y[2])

RNeg(x) == <<-x[1], x[2]>>

RSub(x, y) == RAdd(x, RNeg(y))

RMul(x, y) ==
    LET g1 == Gcd(Abs(x[1]), y[2])
        g2 == Gcd(Abs(y[1]), x[2])
    IN  Rat((x[1] \div g1) * (y[1] \div g2), (x[2] \div g2) * (y[2] \div g1))

RGtZero(x) == x[1] > 0

\* x to the power n, n a natural number.
RECURSIVE RPow(_, _)
RPow(x, n) == IF n = 0 THEN One ELSE RMul(x, RPow(x, n - 1))

\* The sum of a sequence of rationals.
RECURSIVE RSumSeq(_)
RSumSeq(s) == IF s = <<>> THEN Zero ELSE RAdd(Head(s), RSumSeq(Tail(s)))

\* The sum of a function's values over its (finite) domain.
RECURSIVE RSumFn(_)
RSumFn(f) ==
    IF DOMAIN f = {} THEN Zero
    ELSE LET c == CHOOSE x \in DOMAIN f : TRUE
         IN  RAdd(f[c], RSumFn([x \in DOMAIN f \ {c} |-> f[x]]))

\* x / y, y # 0.
RDiv(x, y) == Rat(x[1] * y[2], x[2] * y[1])

(***************************************************************************)
(* Python dict helpers: a dict is a function on its key set.               *)
(***************************************************************************)
DictGet(d, k, default) == IF k \in DOMAIN d THEN d[k] ELSE default

\* Python's None, and the test `x is None`.
None == [none |-> TRUE]

IsNone(x) == "none" \in DOMAIN x

(***************************************************************************)
(* project_portfolio_with_taxes                                            *)
(***************************************************************************)
VARIABLES
    args,       \* the call's arguments
    pc,         \* "idle", "call", "loop" or "done"
    year,       \* the loop variable of `for year in range(1, years + 1)`
    locals,     \* the function's local variables, None before the call
    result      \* the returned dict, None before the return

projectorVars == <<args, pc, year, locals, result>>

(***************************************************************************)
(* analyze_aggregate_portfolio                                             *)
(***************************************************************************)
VARIABLES
    request,                \* the AggregateAnalysisRequest
    hpc,                    \* "idle", "start", "loop" or "done"
    handler,                \* the handler's locals before the loop
    p_index,                \* position of `for p in request.portfolios`
    aggregate_projections,  \* None, or the merged projection
    response                \* the HTTP response, None until sent

aggregateVars ==
    <<request, hpc, handler, p_index, aggregate_projections, response>>

(***************************************************************************)
(* calculate_portfolio_returns and performance_stats                       *)
(***************************************************************************)
VARIABLES
    returns_args,    \* the calculator's arguments: prices, weights,
                     \* advisory_fee, expense_ratios
    port_returns,    \* the return series: the calculator's result, the
                     \* summary's argument
    stats,           \* the (dict, cumulative) pair performance_stats returns
    rpc              \* "idle", "returns_call", "stats_call", "returned",
                     \* "raised"

returnsVars == <<returns_args, port_returns, stats, rpc>>

(***************************************************************************)
(* analyze_portfolio                                                       *)
(***************************************************************************)
VARIABLES
    analyze_request,   \* the PortfolioAnalysisRequest
    apc,               \* "idle", "start" or "done"
    analyze_response   \* the HTTP response, None until sent

analyzeVars == <<analyze_request, apc, analyze_response>>

(***************************************************************************)
(* Two requests in flight at once                                          *)
(***************************************************************************)
VARIABLES
    mappings,   \* the dict objects requests hand to the projector: the
                \* module's growth-rate table and each call's allocation
    calls       \* per request: its arguments, position and local variables

concurrentVars == <<mappings, calls>>

vars ==
    <<projectorVars, aggregateVars, returnsVars, analyzeVars, concurrentVars>>

\* The variables of the components other than the one that takes the step.
exceptProjector == <<aggregateVars, returnsVars, analyzeVars, concurrentVars>>

exceptAggregate == <<projectorVars, returnsVars, analyzeVars, concurrentVars>>

exceptReturns == <<projectorVars, aggregateVars, analyzeVars, concurrentVars>>

exceptAnalyze == <<projectorVars, aggregateVars, returnsVars, concurrentVars>>

exceptConcurrent == <<projectorVars, aggregateVars, returnsVars, analyzeVars>>

\* The sum over the classes S of growth_rates of
\* asset_class_allocation.get(asset_class, default) * growth_rate.
RECURSIVE WeightedSum(_, _, _, _)
WeightedSum(S, allocation, rates, default) ==
    IF S = {} THEN Zero
    ELSE LET c == CHOOSE x \in S : TRUE
         IN  RAdd(RMul(DictGet(allocation, c, default), rates[c]),
                  WeightedSum(S \ {c}, allocation, rates, default))

\* Faulty variant: a class absent from the allocation counts with weight 1.
WeightedAnnualReturnDefaultOne(allocation, rates) ==
    WeightedSum(DOMAIN rates, allocation, rates, One)

\* weighted_annual_return, lines 188-191.
WeightedAnnualReturn(allocation, rates) ==
    WeightedSum(DOMAIN rates, allocation, rates, Zero)

is_taxable(account_type) == account_type = "Brokerage"

is_tax_deferred(account_type) == account_type = "Traditional IRA"

\* Step 3 of the loop body, lines 222-227: the year's taxes.
\* Faulty variant: a loss is not taxed, the taxes floored at 0.
TaxesFlooredAtZero(a, growth) ==
    IF is_taxable(a.account_type) /\ RGtZero(a.tax_rate) /\ RGtZero(growth)
    THEN RMul(growth, a.tax_rate)
    ELSE Zero

\* Faulty variant: growth is taxed whatever the account type.
TaxesAnyAccount(a, growth) ==
    IF RGtZero(a.tax_rate) THEN RMul(growth, a.tax_rate) ELSE Zero

Taxes(a, growth) ==
    IF is_taxable(a.account_type) /\ RGtZero(a.tax_rate)
    THEN RMul(growth, a.tax_rate)
    ELSE Zero

\* Step 2, line 218: growth on the balance after the cash flow.
\* Faulty variant: growth earned on the balance before the cash flow.
GrowthOnStart(starting_value, after_cash_flow, war) == RMul(starting_value, war)

Growth(starting_value, after_cash_flow, war) == RMul(after_cash_flow, war)

\* Step 4, line 233: fees on the balance after growth and taxes.
Fees(after_taxes, rate) == RMul(after_taxes, rate)

\* Line 241: the deferred tax liability snapshot of a year.
\* Faulty variant: the liability added to last year's.
DeferredAccumulated(a, previous, ending_value) ==
    IF is_tax_deferred(a.account_type)
    THEN RAdd(previous, RMul(ending_value, a.tax_rate))
    ELSE Zero

DeferredTaxLiability(a, previous, ending_value) ==
    IF is_tax_deferred(a.account_type)
    THEN RMul(ending_value, a.tax_rate)
    ELSE Zero

\* Faulty variant: `total = amount`.
Overwrite(total, amount) == amount

\* A running total, lines 211, 230, 235: `total += amount`.
Accumulate(total, amount) == RAdd(total, amount)

\* Faulty variant: the balance starts at 1.0, as in project_portfolio_with_fees.
InitialLocalsUnitStart(a) ==
    [ weighted_annual_return |->
          WeightedAnnualReturn(a.asset_class_allocation, a.growth_rates),
      yearly_projections |-> <<>>,
      portfolio_value |-> One,
      total_fees |-> Zero,
      total_taxes |-> Zero,
      total_cash_flows |-> Zero,
      total_contributions |-> a.initial_value,
      deferred_tax_liability |-> Zero ]

\* The locals after lines 187-204.
InitialLocals(a) ==
    [ weighted_annual_return |->
          WeightedAnnualReturn(a.asset_class_allocation, a.growth_rates),
      yearly_projections |-> <<>>,
      portfolio_value |-> a.initial_value,
      total_fees |-> Zero,
      total_taxes |-> Zero,
      total_cash_flows |-> Zero,
      total_contributions |-> a.initial_value,
      deferred_tax_liability |-> Zero ]

\* One iteration of the loop, lines 207-254: the locals after it.
LoopBody(a, y, l) ==
    LET war == l.weighted_annual_return
        starting_value == l.portfolio_value
        after_cash_flow == RAdd(starting_value, a.annual_cash_flow)
        growth == Growth(starting_value, after_cash_flow, war)
        after_growth == RAdd(after_cash_flow, growth)
        taxes == Taxes(a, growth)
        after_taxes == RSub(after_growth, taxes)
        fees == Fees(after_taxes, a.total_fee_rate)
        ending_value == RSub(after_taxes, fees)
        deferred == DeferredTaxLiability(a, l.deferred_tax_liability, ending_value)
    IN  [ weighted_annual_return |-> war,
          yearly_projections |-> Append(l.yearly_projections,
              [ year |-> y,
                starting_value |-> starting_value,
                cash_flow |-> a.annual_cash_flow,
                after_cash_flow |-> after_cash_flow,
                growth |-> growth,
                taxes |-> taxes,
                fees |-> fees,
                ending_value |-> ending_value,
                annual_return |-> war,
                deferred_tax_liability |-> deferred ]),
          portfolio_value |-> ending_value,
          total_fees |-> Accumulate(l.total_fees, fees),
          total_taxes |-> Accumulate(l.total_taxes, taxes),
          total_cash_flows |-> Accumulate(l.total_cash_flows, a.annual_cash_flow),
          total_contributions |->
              IF is_tax_deferred(a.account_type) /\ RGtZero(a.annual_cash_flow)
              THEN Accumulate(l.total_contributions, a.annual_cash_flow)
              ELSE l.total_contributions,
          deferred_tax_liability |-> deferred ]

\* The returned dict, lines 256-265.
ReturnValue(a, l) ==
    [ weighted_annual_return |-> l.weighted_annual_return,
      final_portfolio_value |-> l.portfolio_value,
      total_fees |-> l.total_fees,
      total_taxes |-> l.total_taxes,
      total_cash_flows |-> l.total_cash_flows,
      deferred_tax_liability |-> l.deferred_tax_liability,
      account_type |-> a.account_type,
      yearly_projections |-> l.yearly_projections ]

\* `year in range(1, years + 1)`: whether the loop runs iteration y.
\* Faulty variant: range(1, years).
InRangeExclusive(y, years) == y < years

InRange(y, years) == y <= years

\* The function run to its return: the loop from year 1 on the initial locals.
RECURSIVE RunLoop(_, _, _)
RunLoop(a, y, l) ==
    IF InRange(y, a.years) THEN RunLoop(a, y + 1, LoopBody(a, y, l)) ELSE l

project_portfolio_with_taxes(a) == ReturnValue(a, RunLoop(a, 1, InitialLocals(a)))

(***************************************************************************)
(* The inputs the projector is called with.                                *)
(***************************************************************************)
Half == Rat(1, 2)
Quarter == Rat(1, 4)

AccountTypes == {"Brokerage", "Roth IRA", "Traditional IRA"}

\* An account type outside the documented three.
OtherAccountTypes == {"401k"}

Allocations ==
    { [c \in {"Equity"} |-> One],
      [c \in {"Equity", "Bond"} |-> Half],
      [c \in {"Equity", "Crypto"} |-> Half] }

GrowthTables ==
    { [c \in {"Equity", "Bond", "Cash"} |->
          IF c = "Equity" THEN Half ELSE IF c = "Bond" THEN Zero ELSE Quarter],
      [c \in {"Equity", "Bond"} |-> IF c = "Equity" THEN RNeg(Half) ELSE Half],
      [c \in {"Bond"} |-> Half] }

FeeRates == {Zero, Quarter}

TaxRates == {RNeg(Half), Zero, Half}

InitialValues == {Rat(-1, 1), Zero, One}

CashFlows == {Rat(-2, 1), Zero, One}

Horizons == (-1) .. MaxYears

ProjectorArgs ==
    [ asset_class_allocation : Allocations,
      growth_rates : GrowthTables,
      total_fee_rate : FeeRates,
      initial_value : InitialValues,
      annual_cash_flow : CashFlows,
      tax_rate : TaxRates,
      account_type : AccountTypes \cup OtherAccountTypes,
      years : Horizons ]

(***************************************************************************)
(* The projector as a state machine: the call, each loop iteration, the    *)
(* return.                                                                 *)
(***************************************************************************)
ProjectorIdle ==
    /\ args = None
    /\ pc = "idle"
    /\ year = 0
    /\ locals = None
    /\ result = None

ReturnsIdle ==
    /\ returns_args = None
    /\ port_returns = None
    /\ stats = None
    /\ rpc = "idle"

ConcurrentIdle ==
    /\ mappings = None
    /\ calls = None

AnalyzeIdle ==
    /\ analyze_request = None
    /\ apc = "idle"
    /\ analyze_response = None

AggregateIdle ==
    /\ request = None
    /\ hpc = "idle"
    /\ handler = None
    /\ p_index = 0
    /\ aggregate_projections = None
    /\ response = None

Init ==
    /\ args \in ProjectorArgs
    /\ pc = "call"
    /\ year = 0
    /\ locals = None
    /\ result = None
    /\ AggregateIdle
    /\ ReturnsIdle
    /\ AnalyzeIdle
    /\ ConcurrentIdle

\* Lines 187-204: the blended rate and the initial locals.
Enter ==
    /\ pc = "call"
    /\ locals' = InitialLocals(args)
    /\ year' = 1
    /\ pc' = "loop"
    /\ UNCHANGED <<args, result, exceptProjector>>

\* Lines 206-254: one iteration of the loop.
Iterate ==
    /\ pc = "loop"
    /\ InRange(year, args.years)
    /\ locals' = LoopBody(args, year, locals)
    /\ year' = year + 1
    /\ UNCHANGED <<args, pc, result, exceptProjector>>

\* Lines 256-265: the range is exhausted, the dict is returned.
Return ==
    /\ pc = "loop"
    /\ ~InRange(year, args.years)
    /\ result' = ReturnValue(args, locals)
    /\ pc' = "done"
    /\ UNCHANGED <<args, year, locals, exceptProjector>>

Next == Enter \/ Iterate \/ Return

Spec == Init /\ [][Next]_vars

(***************************************************************************)
(* Properties of the projector.                                            *)
(***************************************************************************)
\* The yearly records appended so far.
Ledger == IF IsNone(locals) THEN <<>> ELSE locals.yearly_projections

Returned == ~IsNone(result)

\* C1: in the returned ledger the first record's starting_value is
\* initial_value, and the ending_value of every year k is the starting_value
\* of year k+1.
C1_LedgerChained ==
    Returned =>
        LET yp == result.yearly_projections
        IN  /\ Len(yp) >= 1 => yp[1].starting_value = args.initial_value
            /\ \A k \in 1 .. (Len(yp) - 1) :
                   yp[k].ending_value = yp[k + 1].starting_value

C1_Witness ==
    /\ Returned
    /\ Len(result.yearly_projections) >= 2
    /\ args.initial_value # One
    /\ \A k \in 1 .. Len(result.yearly_projections) :
           result.yearly_projections[k].ending_value
               # result.yearly_projections[k].starting_value

\* C2: every yearly record follows the order cash flow, growth, taxes, fees:
\* after_cash_flow = starting_value + annual_cash_flow, growth is earned on
\* after_cash_flow, fees are charged on after_cash_flow + growth - taxes, and
\* ending_value = after_cash_flow + growth - taxes - fees.
C2_OrderOfOperations ==
    \A i \in 1 .. Len(Ledger) :
        LET r == Ledger[i]
        IN  /\ r.cash_flow = args.annual_cash_flow
            /\ r.after_cash_flow = RAdd(r.starting_value, args.annual_cash_flow)
            /\ r.growth = RMul(r.after_cash_flow, locals.weighted_annual_return)
            /\ r.fees = RMul(RSub(RAdd(r.after_cash_flow, r.growth), r.taxes),
                             args.total_fee_rate)
            /\ r.ending_value =
                   RSub(RSub(RAdd(r.after_cash_flow, r.growth), r.taxes), r.fees)

C2_Witness ==
    /\ Len(Ledger) >= 2
    /\ \A i \in 1 .. Len(Ledger) :
           /\ Ledger[i].cash_flow # Zero
           /\ Ledger[i].growth # Zero
           /\ Ledger[i].taxes # Zero
           /\ Ledger[i].fees # Zero
           /\ Ledger[i].growth
                  # RMul(Ledger[i].starting_value, locals.weighted_annual_return)

\* C3: a year's taxes are growth * tax_rate when the account type is
\* Brokerage and tax_rate > 0, and 0 otherwise; for Roth IRA and Traditional
\* IRA they are 0 in every year, and so is the returned total_taxes.
C3_TaxesByAccountType ==
    /\ \A i \in 1 .. Len(Ledger) :
           Ledger[i].taxes =
               IF args.account_type = "Brokerage" /\ RGtZero(args.tax_rate)
               THEN RMul(Ledger[i].growth, args.tax_rate)
               ELSE Zero
    /\ args.account_type \in {"Roth IRA", "Traditional IRA"} =>
           /\ \A i \in 1 .. Len(Ledger) : Ledger[i].taxes = Zero
           /\ Returned => result.total_taxes = Zero

C3_Witness ==
    /\ Returned
    /\ args.account_type = "Brokerage"
    /\ Len(Ledger) >= 2
    /\ \A i \in 1 .. Len(Ledger) :
           /\ Ledger[i].taxes # Zero
           /\ Ledger[i].taxes # RMul(Ledger[i].ending_value, args.tax_rate)
           /\ Ledger[i].taxes # RMul(Ledger[i].after_cash_flow, args.tax_rate)

\* C4: a year's deferred_tax_liability is that year's ending_value * tax_rate
\* for a Traditional IRA and 0 for every other account type; it does not
\* accumulate across years.
C4_DeferredLiabilitySnapshot ==
    \A i \in 1 .. Len(Ledger) :
        Ledger[i].deferred_tax_liability =
            IF args.account_type = "Traditional IRA"
            THEN RMul(Ledger[i].ending_value, args.tax_rate)
            ELSE Zero

C4_Witness ==
    /\ args.account_type = "Traditional IRA"
    /\ Len(Ledger) >= 2
    /\ Ledger[1].deferred_tax_liability # Zero
    /\ Ledger[2].deferred_tax_liability # Zero
    /\ Ledger[2].deferred_tax_liability # Ledger[1].deferred_tax_liability

\* C5: the returned totals are the sums of the records' fees, taxes and
\* cash_flow; final_portfolio_value and the headline deferred_tax_liability
\* are the last record's ending_value and deferred_tax_liability.
C5_TotalsMatchLedger ==
    Returned =>
        LET yp == result.yearly_projections
            n == Len(yp)
        IN  /\ result.total_fees = RSumSeq([i \in 1 .. n |-> yp[i].fees])
            /\ result.total_taxes = RSumSeq([i \in 1 .. n |-> yp[i].taxes])
            /\ result.total_cash_flows =
                   RSumSeq([i \in 1 .. n |-> yp[i].cash_flow])
            /\ n >= 1 =>
                   /\ result.final_portfolio_value = yp[n].ending_value
                   /\ result.deferred_tax_liability =
                          yp[n].deferred_tax_liability

C5_Witness ==
    /\ Returned
    /\ Len(result.yearly_projections) >= 2
    /\ result.total_fees # Zero
    /\ result.total_fees
           # result.yearly_projections[Len(result.yearly_projections)].fees
    /\ result.total_cash_flows # args.annual_cash_flow
    /\ result.deferred_tax_liability # Zero
    /\ result.deferred_tax_liability #
           RSumSeq([i \in 1 .. Len(result.yearly_projections) |->
                       result.yearly_projections[i].deferred_tax_liability])

\* While the loop runs, year - 1 records exist, numbered 1, 2, ... in order,
\* and the loop variable never passes years + 1; a returned ledger of a
\* horizon years >= 1 holds exactly `years` records.
LedgerComplete ==
    /\ \A i \in 1 .. Len(Ledger) : Ledger[i].year = i
    /\ pc = "loop" => Len(Ledger) = year - 1 /\ (args.years >= 1 => year <= args.years + 1)
    /\ Returned /\ args.years >= 1 =>
           /\ Len(result.yearly_projections) = args.years
           /\ \A i \in 1 .. args.years : result.yearly_projections[i].year = i

\* The number of steps a call still has to take before it has returned.
StepsLeft ==
    LET n == IF args.years >= 1 THEN args.years ELSE 0
    IN  IF pc = "call" THEN n + 2
        ELSE IF pc = "loop" THEN (IF year <= n THEN n - year + 1 ELSE 0) + 1
        ELSE 0

\* C6: for every horizon years >= 1 the projector terminates after exactly
\* `years` iterations and returns exactly `years` records with year indices
\* 1, 2, ..., years in that order, whatever the balance (negative, zero,
\* withdrawn below zero): every step of a call is one step closer to the
\* return, no record is appended twice and none is skipped.
C6_ExactlyYearsRecords ==
    /\ []LedgerComplete
    /\ [][ /\ StepsLeft' = StepsLeft - 1
           /\ Len(Ledger') \in {Len(Ledger), Len(Ledger) + 1}
           /\ \A i \in 1 .. Len(Ledger) : Ledger'[i] = Ledger[i] ]_vars

C6_Witness ==
    /\ Returned
    /\ StepsLeft = 0
    /\ args.years = MaxYears
    /\ Len(result.yearly_projections) = MaxYears
    /\ result.yearly_projections[1].starting_value = Zero
    /\ result.yearly_projections[1].ending_value[1] < 0
    /\ result.yearly_projections[MaxYears].ending_value[1] < 0

\* C7: a call with years <= 0 fails before any year is simulated and returns
\* no projection result.
C7_NonPositiveHorizonRejected == args.years <= 0 => ~Returned

\* C8: a call with an account type other than Brokerage, Roth IRA and
\* Traditional IRA fails before any year is simulated: no yearly record is
\* produced and no result is returned.
C8_UnknownAccountTypeRejected ==
    args.account_type \notin AccountTypes => Ledger = <<>> /\ ~Returned

\* The blended rate stated independently of the code's iteration: over every
\* asset class, the allocation weight (0 when absent) times the growth rate
\* (no contribution when the class is absent from the growth-rate table).
AssetClasses == {"Equity", "Bond", "Cash", "Crypto"}

BlendedRate ==
    RSumFn([c \in AssetClasses |->
        IF c \in DOMAIN args.growth_rates
        THEN RMul(DictGet(args.asset_class_allocation, c, Zero),
                  args.growth_rates[c])
        ELSE Zero])

\* C9: with no cash flow, no tax and no fees the returned
\* final_portfolio_value is initial_value * (1 + weighted_annual_return)^years
\* for every account type, where weighted_annual_return is the blended rate
\* and is the annual_return of every record.
C9_CompoundGrowth ==
    /\ Returned => result.weighted_annual_return = BlendedRate
    /\ \A i \in 1 .. Len(Ledger) : Ledger[i].annual_return = BlendedRate
    /\ ( /\ Returned
         /\ args.years >= 0
         /\ args.annual_cash_flow = Zero
         /\ args.tax_rate = Zero
         /\ args.total_fee_rate = Zero )
       => result.final_portfolio_value =
              RMul(args.initial_value, RPow(RAdd(One, BlendedRate), args.years))

C9_Witness ==
    /\ Returned
    /\ args.years >= 2
    /\ args.annual_cash_flow = Zero
    /\ args.tax_rate = Zero
    /\ args.total_fee_rate = Zero
    /\ args.initial_value # Zero
    /\ BlendedRate \notin {Zero, Half}
    /\ DOMAIN args.asset_class_allocation \ DOMAIN args.growth_rates # {}
    /\ DOMAIN args.growth_rates \ DOMAIN args.asset_class_allocation # {}
    /\ Len(result.yearly_projections) = args.years

(***************************************************************************)
(* The collaborators of the aggregate handler: the Portfolio class and the *)
(* static tables of analytics.models.  A dict of holdings maps a ticker to *)
(* its dollar amount; an absent or empty overrides dict is the empty       *)
(* function.                                                               *)
(***************************************************************************)
EmptyDict == <<>>

\* years=10 of every projection the handlers ask for.
ProjectionYears == 10

growth_rates ==
    [c \in {"Equity", "Bond", "Cash"} |->
        IF c = "Equity" THEN Half ELSE IF c = "Bond" THEN RNeg(Half) ELSE Zero]

model_fee == Zero

model_portfolios ==
    [m \in {"Growth", "Balanced"} |->
        IF m = "Growth" THEN [t \in {"SPY"} |-> One]
        ELSE [t \in {"SPY", "BND"} |-> Half]]

TickerAssetClass ==
    [t \in {"SPY", "BND", "VTI"} |-> IF t = "BND" THEN "Bond" ELSE "Equity"]

TickerExpenseRatio ==
    [t \in {"SPY", "BND", "VTI"} |-> IF t = "VTI" THEN Half ELSE Zero]

\* The weights of a portfolio are its amounts divided by their total: with a
\* total of 0 the division is undefined and the constructor raises.
PortfolioDefined(holdings) == RSumFn(holdings) # Zero

\* Portfolio(holdings, name, advisory_fee, asset_class_overrides): the
\* attributes the handler reads, for holdings with PortfolioDefined.
Portfolio(holdings, advisory_fee, overrides) ==
    LET total == RSumFn(holdings)
        class(t) == DictGet(overrides, t, TickerAssetClass[t])
        weights == [t \in DOMAIN holdings |-> RDiv(holdings[t], total)]
    IN  [ total_value |-> total,
          advisory_fee |-> advisory_fee,
          portfolio_weights |-> weights,
          asset_class_allocation |->
              [c \in {class(t) : t \in DOMAIN holdings} |->
                  RSumFn([t \in {u \in DOMAIN holdings : class(u) = c} |->
                             weights[t]])],
          weighted_avg_er |->
              RSumFn([t \in DOMAIN holdings |->
                         RMul(weights[t], TickerExpenseRatio[t])]) ]

(***************************************************************************)
(* analyze_aggregate_portfolio, step by step.                              *)
(***************************************************************************)
\* Faulty variant: `combined_holdings[ticker] = amount`.
AddHoldingsOverwrite(combined, holdings) ==
    [t \in DOMAIN combined \cup DOMAIN holdings |->
        IF t \in DOMAIN holdings THEN holdings[t] ELSE combined[t]]

\* Lines 213-217: the holdings and overrides of all portfolios combined.
AddHoldings(combined, holdings) ==
    [t \in DOMAIN combined \cup DOMAIN holdings |->
        IF t \in DOMAIN holdings
        THEN RAdd(DictGet(combined, t, Zero), holdings[t])
        ELSE combined[t]]

DictUpdate(d, e) ==
    [k \in DOMAIN d \cup DOMAIN e |-> IF k \in DOMAIN e THEN e[k] ELSE d[k]]

RECURSIVE CombinedHoldings(_)
CombinedHoldings(portfolios) ==
    IF portfolios = <<>> THEN EmptyDict
    ELSE AddHoldings(CombinedHoldings(SubSeq(portfolios, 1, Len(portfolios) - 1)),
                     portfolios[Len(portfolios)].holdings)

RECURSIVE CombinedOverrides(_)
CombinedOverrides(portfolios) ==
    IF portfolios = <<>> THEN EmptyDict
    ELSE DictUpdate(CombinedOverrides(SubSeq(portfolios, 1, Len(portfolios) - 1)),
                    portfolios[Len(portfolios)].asset_class_overrides)

\* Faulty variant: the fees added up without their value weights.
WeightedFeeUnweighted(portfolios, total_value) ==
    IF RGtZero(total_value)
    THEN RSumSeq([i \in 1 .. Len(portfolios) |->
             IF RGtZero(RSumFn(portfolios[i].holdings))
             THEN portfolios[i].advisory_fee
             ELSE Zero])
    ELSE Zero

\* Lines 223-227: the value-weighted advisory fee.
WeightedFee(portfolios, total_value) ==
    IF RGtZero(total_value)
    THEN RSumSeq([i \in 1 .. Len(portfolios) |->
             IF RGtZero(RSumFn(portfolios[i].holdings))
             THEN RMul(RDiv(RSumFn(portfolios[i].holdings), total_value),
                       portfolios[i].advisory_fee)
             ELSE Zero])
    ELSE Zero

\* Lines 283-302: the projection of one portfolio of the request, with the
\* module's growth-rate table as it stands.
PortfolioProjection(p, tax_rate, rates) ==
    LET p_portfolio == Portfolio(p.holdings, p.advisory_fee, p.asset_class_overrides)
    IN  project_portfolio_with_taxes(
            [ asset_class_allocation |-> p_portfolio.asset_class_allocation,
              growth_rates |-> rates,
              total_fee_rate |->
                  RAdd(p_portfolio.weighted_avg_er, p_portfolio.advisory_fee),
              initial_value |-> RSumFn(p.holdings),
              annual_cash_flow |-> p.annual_cash_flow,
              tax_rate |-> tax_rate,
              account_type |-> p.account_type,
              years |-> ProjectionYears ])

\* Lines 317-326: the aggregate's copy of a yearly record.
AggregateYear(yp) ==
    [ year |-> yp.year,
      starting_value |-> yp.starting_value,
      ending_value |-> yp.ending_value,
      growth |-> yp.growth,
      fees |-> yp.fees,
      taxes |-> yp.taxes,
      cash_flow |-> yp.cash_flow,
      deferred_tax_liability |-> yp.deferred_tax_liability ]

\* Lines 304-326: the aggregate initialised from the first projection.
FirstAggregate(p_projection) ==
    [ weighted_annual_return |-> p_projection.weighted_annual_return,
      final_portfolio_value |-> p_projection.final_portfolio_value,
      total_fees |-> p_projection.total_fees,
      total_taxes |-> p_projection.total_taxes,
      total_cash_flows |-> p_projection.total_cash_flows,
      deferred_tax_liability |-> p_projection.deferred_tax_liability,
      yearly_projections |->
          [i \in 1 .. Len(p_projection.yearly_projections) |->
              AggregateYear(p_projection.yearly_projections[i])] ]

\* Faulty variant: the taxes line adds the fees field.
AddYearTaxesFromFees(agg_year, yp) ==
    [ year |-> agg_year.year,
      starting_value |-> RAdd(agg_year.starting_value, yp.starting_value),
      ending_value |-> RAdd(agg_year.ending_value, yp.ending_value),
      growth |-> RAdd(agg_year.growth, yp.growth),
      fees |-> RAdd(agg_year.fees, yp.fees),
      taxes |-> RAdd(agg_year.taxes, yp.fees),
      cash_flow |-> RAdd(agg_year.cash_flow, yp.cash_flow),
      deferred_tax_liability |->
          RAdd(agg_year.deferred_tax_liability, yp.deferred_tax_liability) ]

\* Lines 337-343: a later projection's yearly record added to the aggregate's.
AddYear(agg_year, yp) ==
    [ year |-> agg_year.year,
      starting_value |-> RAdd(agg_year.starting_value, yp.starting_value),
      ending_value |-> RAdd(agg_year.ending_value, yp.ending_value),
      growth |-> RAdd(agg_year.growth, yp.growth),
      fees |-> RAdd(agg_year.fees, yp.fees),
      taxes |-> RAdd(agg_year.taxes, yp.taxes),
      cash_flow |-> RAdd(agg_year.cash_flow, yp.cash_flow),
      deferred_tax_liability |->
          RAdd(agg_year.deferred_tax_liability, yp.deferred_tax_liability) ]

\* Faulty variant: the yearly records merged, the totals left as they were.
MergeAggregateLedgerOnly(agg, p_projection) ==
    [ weighted_annual_return |-> agg.weighted_annual_return,
      final_portfolio_value |-> agg.final_portfolio_value,
      total_fees |-> agg.total_fees,
      total_taxes |-> agg.total_taxes,
      total_cash_flows |-> agg.total_cash_flows,
      deferred_tax_liability |-> agg.deferred_tax_liability,
      yearly_projections |->
          [i \in 1 .. Len(agg.yearly_projections) |->
              IF i <= Len(p_projection.yearly_projections)
              THEN AddYear(agg.yearly_projections[i],
                           p_projection.yearly_projections[i])
              ELSE agg.yearly_projections[i]] ]

\* Faulty variant: the blended return taken from the projection merged last.
MergeAggregateLastReturn(agg, p_projection) ==
    [ weighted_annual_return |-> p_projection.weighted_annual_return,
      final_portfolio_value |->
          RAdd(agg.final_portfolio_value, p_projection.final_portfolio_value),
      total_fees |-> RAdd(agg.total_fees, p_projection.total_fees),
      total_taxes |-> RAdd(agg.total_taxes, p_projection.total_taxes),
      total_cash_flows |->
          RAdd(agg.total_cash_flows, p_projection.total_cash_flows),
      deferred_tax_liability |->
          RAdd(agg.deferred_tax_liability, p_projection.deferred_tax_liability),
      yearly_projections |->
          [i \in 1 .. Len(agg.yearly_projections) |->
              IF i <= Len(p_projection.yearly_projections)
              THEN AddYear(agg.yearly_projections[i],
                           p_projection.yearly_projections[i])
              ELSE agg.yearly_projections[i]] ]

\* Lines 327-343: a later projection merged into the aggregate.
MergeAggregate(agg, p_projection) ==
    [ weighted_annual_return |-> agg.weighted_annual_return,
      final_portfolio_value |->
          RAdd(agg.final_portfolio_value, p_projection.final_portfolio_value),
      total_fees |-> RAdd(agg.total_fees, p_projection.total_fees),
      total_taxes |-> RAdd(agg.total_taxes, p_projection.total_taxes),
      total_cash_flows |->
          RAdd(agg.total_cash_flows, p_projection.total_cash_flows),
      deferred_tax_liability |->
          RAdd(agg.deferred_tax_liability, p_projection.deferred_tax_liability),
      yearly_projections |->
          [i \in 1 .. Len(agg.yearly_projections) |->
              IF i <= Len(p_projection.yearly_projections)
              THEN AddYear(agg.yearly_projections[i],
                           p_projection.yearly_projections[i])
              ELSE agg.yearly_projections[i]] ]

\* The requests the handler is given.
SamplePortfolios ==
    { [ holdings |-> [t \in {"SPY"} |-> One],
        advisory_fee |-> Zero,
        asset_class_overrides |-> EmptyDict,
        account_type |-> "Brokerage",
        annual_cash_flow |-> One ],
      [ holdings |-> [t \in {"BND"} |-> Rat(2, 1)],
        advisory_fee |-> Half,
        asset_class_overrides |-> EmptyDict,
        account_type |-> "Traditional IRA",
        annual_cash_flow |-> Zero ],
      [ holdings |-> [t \in {"SPY", "BND"} |-> One],
        advisory_fee |-> Zero,
        asset_class_overrides |-> EmptyDict,
        account_type |-> "Roth IRA",
        annual_cash_flow |-> Rat(-1, 1) ],
      [ holdings |-> EmptyDict,
        advisory_fee |-> Half,
        asset_class_overrides |-> EmptyDict,
        account_type |-> "Brokerage",
        annual_cash_flow |-> One ],
      [ holdings |-> [t \in {"SPY"} |-> Rat(2, 1)],
        advisory_fee |-> Half,
        asset_class_overrides |-> [t \in {"SPY"} |-> "Bond"],
        account_type |-> "Traditional IRA",
        annual_cash_flow |-> One ],
      [ holdings |-> [t \in {"VTI"} |-> One],
        advisory_fee |-> Zero,
        asset_class_overrides |-> EmptyDict,
        account_type |-> "Brokerage",
        annual_cash_flow |-> Zero ],
      [ holdings |-> [t \in {"SPY"} |-> Zero],
        advisory_fee |-> Half,
        asset_class_overrides |-> EmptyDict,
        account_type |-> "Roth IRA",
        annual_cash_flow |-> Zero ] }

AggregateRequests ==
    [ portfolios : UNION {[1 .. n -> SamplePortfolios] : n \in 0 .. MaxPortfolios},
      tax_rate : {Zero, One} ]

AggregateInit ==
    /\ request \in AggregateRequests
    /\ hpc = "start"
    /\ handler = None
    /\ p_index = 0
    /\ aggregate_projections = None
    /\ response = None
    /\ ProjectorIdle
    /\ ReturnsIdle
    /\ AnalyzeIdle
    /\ ConcurrentIdle

\* Lines 205-206: an empty portfolio list is refused outside the try block.
RejectNoPortfolios ==
    /\ hpc = "start"
    /\ request.portfolios = <<>>
    /\ response' =
           [status_code |-> 400, detail |-> "At least one portfolio is required"]
    /\ hpc' = "done"
    /\ UNCHANGED <<request, handler, p_index, aggregate_projections, exceptAggregate>>

\* Lines 208-220 and 406-407: no holdings in any portfolio raises
\* HTTPException(400) inside the try block, whose `except Exception` handler
\* answers 500.
RejectNoHoldings ==
    /\ hpc = "start"
    /\ request.portfolios # <<>>
    /\ CombinedHoldings(request.portfolios) = EmptyDict
    /\ response' =
           [ status_code |-> 500,
             detail |->
                 "Aggregate analysis failed: 400: No holdings found in any portfolio" ]
    /\ hpc' = "done"
    /\ UNCHANGED <<request, handler, p_index, aggregate_projections, exceptAggregate>>

\* Lines 208-227: the handler's locals when the first collaborator is called.
CombinedLocals(req) ==
    LET combined_holdings == CombinedHoldings(req.portfolios)
        total_value == RSumFn(combined_holdings)
    IN  [ combined_holdings |-> combined_holdings,
          combined_overrides |-> CombinedOverrides(req.portfolios),
          total_value |-> total_value,
          weighted_fee |-> WeightedFee(req.portfolios, total_value) ]

\* Lines 208-275: the handler's locals when the loop starts, model_name being
\* the matcher's answer.
HandlerLocals(req, model_name) ==
    LET l == CombinedLocals(req)
        model_allocations == model_portfolios[model_name]
    IN  [ combined_holdings |-> l.combined_holdings,
          combined_overrides |-> l.combined_overrides,
          total_value |-> l.total_value,
          weighted_fee |-> l.weighted_fee,
          combined_portfolio |->
              Portfolio(l.combined_holdings, l.weighted_fee, l.combined_overrides),
          model_name |-> model_name,
          model_portfolio |->
              Portfolio([t \in DOMAIN model_allocations |->
                            RMul(l.total_value, model_allocations[t])],
                        model_fee, EmptyDict) ]

\* Lines 208-277: the combined portfolio, the matched model portfolio (the
\* matcher is a black box: any model may be the best match), and the start of
\* the projection loop.
Combine ==
    /\ hpc = "start"
    /\ request.portfolios # <<>>
    /\ CombinedHoldings(request.portfolios) # EmptyDict
    /\ PortfolioDefined(CombinedHoldings(request.portfolios))
    /\ \E model_name \in DOMAIN model_portfolios :
          handler' = HandlerLocals(request, model_name)
    /\ aggregate_projections' = None
    /\ p_index' = 1
    /\ hpc' = "loop"
    /\ UNCHANGED <<request, response, exceptAggregate>>

\* Lines 229-275 and 406-407: a collaborator (the Portfolio class, the price
\* download, the matcher) raises inside the try block, after lines 208-227.
CollaboratorRaises ==
    /\ hpc = "start"
    /\ request.portfolios # <<>>
    /\ CombinedHoldings(request.portfolios) # EmptyDict
    /\ handler' = CombinedLocals(request)
    /\ response' = [status_code |-> 500, detail |-> "Aggregate analysis failed"]
    /\ hpc' = "done"
    /\ UNCHANGED <<request, p_index, aggregate_projections, exceptAggregate>>

\* Lines 283-288 and 406-407: the Portfolio of a listed portfolio whose
\* holdings total 0 raises inside the loop.
PortfolioRaises ==
    /\ hpc = "loop"
    /\ p_index <= Len(request.portfolios)
    /\ request.portfolios[p_index].holdings # EmptyDict
    /\ ~PortfolioDefined(request.portfolios[p_index].holdings)
    /\ response' = [status_code |-> 500, detail |-> "Aggregate analysis failed"]
    /\ hpc' = "done"
    /\ UNCHANGED <<request, handler, p_index, aggregate_projections, exceptAggregate>>

\* Lines 279-343: the aggregate after the loop body has run on portfolio p.
AfterProjectOne(p, tax_rate, agg, rates) ==
    IF p.holdings = EmptyDict THEN agg
    ELSE IF IsNone(agg)
    THEN FirstAggregate(PortfolioProjection(p, tax_rate, rates))
    ELSE MergeAggregate(agg, PortfolioProjection(p, tax_rate, rates))

\* Lines 279-343: one iteration of `for p in request.portfolios`.
ProjectOne ==
    /\ hpc = "loop"
    /\ p_index <= Len(request.portfolios)
    /\ \/ request.portfolios[p_index].holdings = EmptyDict
       \/ PortfolioDefined(request.portfolios[p_index].holdings)
    /\ aggregate_projections' =
           AfterProjectOne(request.portfolios[p_index], request.tax_rate,
                           aggregate_projections, growth_rates)
    /\ p_index' = p_index + 1
    /\ UNCHANGED <<request, hpc, handler, response, exceptAggregate>>

\* Lines 345-358: the model portfolio's projection.
ModelProjection(req, h, rates) ==
    project_portfolio_with_taxes(
        [ asset_class_allocation |-> h.model_portfolio.asset_class_allocation,
          growth_rates |-> rates,
          total_fee_rate |->
              RAdd(h.model_portfolio.weighted_avg_er, h.model_portfolio.advisory_fee),
          initial_value |-> h.model_portfolio.total_value,
          annual_cash_flow |->
              RSumSeq([i \in 1 .. Len(req.portfolios) |->
                          req.portfolios[i].annual_cash_flow]),
          tax_rate |-> req.tax_rate,
          account_type |-> "Brokerage",
          years |-> ProjectionYears ])

\* Lines 345-404: the response, from the locals h and the aggregate agg.
ResponseOf(req, h, agg, rates) ==
    LET model_projection == ModelProjection(req, h, rates)
        current_annual_fee ==
            RMul(RAdd(h.combined_portfolio.weighted_avg_er, h.weighted_fee),
                 h.total_value)
        model_annual_fee ==
            RMul(RAdd(h.model_portfolio.weighted_avg_er,
                      h.model_portfolio.advisory_fee),
                 h.model_portfolio.total_value)
    IN  [ status_code |-> 200,
          current_portfolio |->
              [ total_value |-> h.combined_portfolio.total_value,
                weights |-> h.combined_portfolio.portfolio_weights,
                weighted_avg_er |-> h.combined_portfolio.weighted_avg_er,
                asset_class_allocation |->
                    h.combined_portfolio.asset_class_allocation,
                advisory_fee |-> h.weighted_fee ],
          model_name |-> h.model_name,
          projections |-> [current |-> agg, model |-> model_projection],
          fee_analysis |->
              [ current_annual_fee |-> current_annual_fee,
                model_annual_fee |-> model_annual_fee,
                annual_savings |-> RSub(current_annual_fee, model_annual_fee),
                current_total_fees |->
                    IF IsNone(agg) THEN Zero ELSE agg.total_fees,
                model_total_fees |-> model_projection.total_fees ] ]

\* Lines 345-404: the loop is over, the response is built.
Respond ==
    /\ hpc = "loop"
    /\ p_index > Len(request.portfolios)
    /\ response' =
           ResponseOf(request, handler, aggregate_projections, growth_rates)
    /\ hpc' = "done"
    /\ UNCHANGED <<request, handler, p_index, aggregate_projections, exceptAggregate>>

NextAggregate ==
    \/ RejectNoPortfolios
    \/ RejectNoHoldings
    \/ Combine
    \/ CollaboratorRaises
    \/ PortfolioRaises
    \/ ProjectOne
    \/ Respond

SpecAggregate == AggregateInit /\ [][NextAggregate]_vars

(***************************************************************************)
(* Properties of the aggregate handler.                                    *)
(***************************************************************************)
\* The portfolios the loop has passed that have holdings.
Visited ==
    {i \in 1 .. (p_index - 1) : request.portfolios[i].holdings # EmptyDict}

\* A portfolio projected on its own: its own holdings, fee, account type and
\* cash flow, the request's tax rate, ten years.
OwnProjection(p) ==
    project_portfolio_with_taxes(
        [ asset_class_allocation |->
              Portfolio(p.holdings, p.advisory_fee, p.asset_class_overrides)
                  .asset_class_allocation,
          growth_rates |-> growth_rates,
          total_fee_rate |->
              RAdd(Portfolio(p.holdings, p.advisory_fee, p.asset_class_overrides)
                       .weighted_avg_er,
                   p.advisory_fee),
          initial_value |-> RSumFn(p.holdings),
          annual_cash_flow |-> p.annual_cash_flow,
          tax_rate |-> request.tax_rate,
          account_type |-> p.account_type,
          years |-> ProjectionYears ])

\* C10: each portfolio with holdings is projected separately with its own
\* account type, cash flow and fee rate, and every aggregate year-k record's
\* starting_value, ending_value, growth, fees, taxes, cash_flow and
\* deferred_tax_liability is the sum of that field over the per-portfolio
\* year-k records, for any number and order of portfolios.
C10_AggregateIsSumOfLedgers ==
    LET ledgers ==
            {<<i, OwnProjection(request.portfolios[i]).yearly_projections>> :
                i \in Visited}
        own == [i \in Visited |-> (CHOOSE e \in ledgers : e[1] = i)[2]]
    IN  IF Visited = {} THEN IsNone(aggregate_projections)
        ELSE /\ ~IsNone(aggregate_projections)
             /\ Len(aggregate_projections.yearly_projections) = ProjectionYears
             /\ \A k \in 1 .. ProjectionYears :
                   LET agg_year == aggregate_projections.yearly_projections[k]
                   IN  /\ agg_year.year = k
                       /\ agg_year.starting_value =
                              RSumFn([i \in Visited |-> own[i][k].starting_value])
                       /\ agg_year.ending_value =
                              RSumFn([i \in Visited |-> own[i][k].ending_value])
                       /\ agg_year.growth =
                              RSumFn([i \in Visited |-> own[i][k].growth])
                       /\ agg_year.fees =
                              RSumFn([i \in Visited |-> own[i][k].fees])
                       /\ agg_year.taxes =
                              RSumFn([i \in Visited |-> own[i][k].taxes])
                       /\ agg_year.cash_flow =
                              RSumFn([i \in Visited |-> own[i][k].cash_flow])
                       /\ agg_year.deferred_tax_liability =
                              RSumFn([i \in Visited |->
                                         own[i][k].deferred_tax_liability])

C10_Witness ==
    /\ hpc = "done"
    /\ ~IsNone(response)
    /\ response.status_code = 200
    /\ Len(request.portfolios) >= 2
    /\ Cardinality(Visited) >= 2
    /\ request.portfolios[1].account_type # request.portfolios[2].account_type
    /\ request.portfolios[1].annual_cash_flow # request.portfolios[2].annual_cash_flow
    /\ response.projections.current = aggregate_projections
    /\ LET last == aggregate_projections.yearly_projections[ProjectionYears]
       IN  /\ last.taxes # Zero
           /\ last.fees # Zero
           /\ last.taxes # last.fees
           /\ last.deferred_tax_liability # Zero
           /\ last.cash_flow # Zero

(***************************************************************************)
(* The handler's answers and the aggregate projection.                     *)
(***************************************************************************)
\* C17: a request whose portfolio list is empty is answered 400 'At least one
\* portfolio is required', and a request with portfolios that all have empty
\* holdings is answered 400 'No holdings found in any portfolio'.
C17_EmptyRequestsAnswered400 ==
    hpc = "done" =>
        /\ request.portfolios = <<>> =>
              response = [ status_code |-> 400,
                           detail |-> "At least one portfolio is required" ]
        /\ ( /\ request.portfolios # <<>>
             /\ \A i \in 1 .. Len(request.portfolios) :
                   request.portfolios[i].holdings = EmptyDict ) =>
              response = [ status_code |-> 400,
                           detail |-> "No holdings found in any portfolio" ]

\* The sum of a field over the aggregate's yearly records.
AggregateLedgerSum(field) ==
    RSumSeq([k \in 1 .. Len(aggregate_projections.yearly_projections) |->
                aggregate_projections.yearly_projections[k][field]])

\* C19: once portfolios have been merged the aggregate agrees with its own
\* ledger: the final value and the deferred liability are the last record's,
\* the totals of fees, taxes and cash flows are the sums over the records,
\* and each year's ending_value is the next year's starting_value.
C19_AggregateMatchesOwnLedger ==
    ~IsNone(aggregate_projections) =>
        LET ledger == aggregate_projections.yearly_projections
            n == Len(ledger)
        IN  /\ n > 0
            /\ aggregate_projections.final_portfolio_value = ledger[n].ending_value
            /\ aggregate_projections.deferred_tax_liability =
                   ledger[n].deferred_tax_liability
            /\ aggregate_projections.total_fees = AggregateLedgerSum("fees")
            /\ aggregate_projections.total_taxes = AggregateLedgerSum("taxes")
            /\ aggregate_projections.total_cash_flows =
                   AggregateLedgerSum("cash_flow")
            /\ \A k \in 1 .. (n - 1) :
                  ledger[k].ending_value = ledger[k + 1].starting_value

C19_Witness ==
    /\ hpc = "done"
    /\ ~IsNone(response)
    /\ response.status_code = 200
    /\ Cardinality(Visited) >= 2
    /\ aggregate_projections.total_fees # Zero
    /\ aggregate_projections.total_taxes # Zero
    /\ aggregate_projections.total_cash_flows # Zero
    /\ aggregate_projections.deferred_tax_liability # Zero
    /\ \E i \in Visited :
          aggregate_projections.total_fees #
              OwnProjection(request.portfolios[i]).total_fees

\* The first portfolio of the request that has holdings, among those the
\* loop has passed.
FirstVisited == CHOOSE i \in Visited : \A j \in Visited : i <= j

\* C20: the aggregate's weighted_annual_return is the one of the first
\* portfolio with holdings, and merging a later portfolio leaves it as it
\* was: it depends on the order of the portfolios and on nothing the later
\* ones hold.
C20_ReturnOfFirstPortfolio ==
    /\ [](~IsNone(aggregate_projections) =>
            aggregate_projections.weighted_annual_return =
                OwnProjection(request.portfolios[FirstVisited])
                    .weighted_annual_return)
    /\ [][~IsNone(aggregate_projections) =>
              aggregate_projections'.weighted_annual_return =
                  aggregate_projections.weighted_annual_return]_vars

\* Two portfolios with different blended returns have been merged: the
\* aggregate carries the first one's, so the opposite order gives the other.
C20_Witness ==
    /\ hpc = "done"
    /\ ~IsNone(response)
    /\ response.status_code = 200
    /\ Cardinality(Visited) = 2
    /\ \E j \in Visited \ {FirstVisited} :
          /\ OwnProjection(request.portfolios[j]).weighted_annual_return #
                 aggregate_projections.weighted_annual_return
          /\ RSumFn(request.portfolios[j].holdings) #
                 RSumFn(request.portfolios[FirstVisited].holdings)
    /\ response.projections.current.weighted_annual_return =
           OwnProjection(request.portfolios[FirstVisited]).weighted_annual_return

(***************************************************************************)
(* The combined holdings and the blended advisory fee.                     *)
(***************************************************************************)
\* The handler has passed lines 208-227.
Combined == ~IsNone(handler)

\* The portfolios of the request that hold ticker t.
Holders(t) ==
    {i \in 1 .. Len(request.portfolios) : t \in DOMAIN request.portfolios[i].holdings}

\* The dollar value of portfolio i of the request.
PortfolioValue(i) == RSumFn(request.portfolios[i].holdings)

\* C11: the combined holdings map each ticker to the sum of its dollar amounts
\* over all portfolios of the request (a ticker held by several portfolios is
\* added, not overwritten), they hold no other ticker, and the combined total
\* value is the sum of the portfolios' total values.
C11_CombinedHoldingsAdditive ==
    Combined =>
        /\ \A t \in DOMAIN TickerAssetClass :
              IF Holders(t) = {} THEN t \notin DOMAIN handler.combined_holdings
              ELSE /\ t \in DOMAIN handler.combined_holdings
                   /\ handler.combined_holdings[t] =
                          RSumFn([i \in Holders(t) |->
                                     request.portfolios[i].holdings[t]])
        /\ DOMAIN handler.combined_holdings \subseteq DOMAIN TickerAssetClass
        /\ handler.total_value =
               RSumFn([i \in 1 .. Len(request.portfolios) |-> PortfolioValue(i)])

C11_Witness ==
    /\ Combined
    /\ hpc = "loop"
    /\ \E t \in DOMAIN handler.combined_holdings :
          /\ Cardinality(Holders(t)) = 2
          /\ \A i \in Holders(t) :
                /\ request.portfolios[i].holdings[t] # Zero
                /\ handler.combined_holdings[t] # request.portfolios[i].holdings[t]
    /\ Cardinality(DOMAIN handler.combined_holdings) = 2

C12_ZeroTotalWitness ==
    /\ Combined
    /\ handler.total_value = Zero
    /\ \E i \in 1 .. Len(request.portfolios) :
          request.portfolios[i].advisory_fee # Zero

(***************************************************************************)
(* calculate_portfolio_returns and performance_stats (performance.py,      *)
(* lines 4-22 and 37-51).  A price frame maps each column (a ticker) to    *)
(* its prices, one per row; all columns have the same rows.  A missing     *)
(* price is NaN; the frames considered have their NaNs at the head of a    *)
(* column (a ticker whose history starts late, or that has no data at      *)
(* all), where pct_change does not depend on its fill method.              *)
(***************************************************************************)
\* Most rows of a price frame.
MaxRows == 3

\* Most periods of a return series handed to performance_stats.
MaxPeriods == 4

NaN == <<0, 0>>

IsNaN(x) == x[2] = 0

\* x <= y.
RLeq(x, y) == x[1] * y[2] <= y[1] * x[2]

RMax(x, y) == IF RLeq(x, y) THEN y ELSE x

RMin(x, y) == IF RLeq(x, y) THEN x ELSE y

\* The number of rows of a frame.
NumRows(frame) == Len(frame[CHOOSE c \in DOMAIN frame : TRUE])

\* The elements of a set of row numbers in increasing order.
RECURSIVE InOrder(_)
InOrder(S) ==
    IF S = {} THEN <<>>
    ELSE LET m == CHOOSE x \in S : \A y \in S : x <= y
         IN  <<m>> \o InOrder(S \ {m})

\* Line 5, prices.pct_change(): the change from the previous row, NaN in
\* the first row and wherever one of the two prices is missing.
pct_change(frame) ==
    [c \in DOMAIN frame |->
        [i \in 1 .. Len(frame[c]) |->
            IF i = 1 \/ IsNaN(frame[c][i]) \/ IsNaN(frame[c][i - 1]) THEN NaN
            ELSE RSub(RDiv(frame[c][i], frame[c][i - 1]), One)]]

\* Line 5, .dropna(): the rows without a NaN, in order.
dropna(frame) ==
    LET kept == InOrder({i \in 1 .. NumRows(frame) :
                            \A c \in DOMAIN frame : ~IsNaN(frame[c][i])})
    IN  [c \in DOMAIN frame |-> [k \in 1 .. Len(kept) |-> frame[c][kept[k]]]]

\* Lines 7-8: returns.dot([weights[col] for col in returns.columns]).
Dot(returns, w) ==
    [k \in 1 .. NumRows(returns) |->
        RSumFn([c \in DOMAIN returns |-> RMul(returns[c][k], w[c])])]

\* Lines 5-8: the raw weighted return series.
RawReturns(frame, w) == Dot(dropna(pct_change(frame)), w)

\* x to the power n by repeated squaring.
RECURSIVE RPowSq(_, _)
RPowSq(x, n) ==
    IF n = 0 THEN One
    ELSE IF n % 2 = 0 THEN RPowSq(RMul(x, x), n \div 2)
    ELSE RMul(x, RPowSq(x, n - 1))

\* x ** (1/252) for x in {0, 1}, the values whose root is a rational.
Root252(x) == CHOOSE y \in {Zero, One} : RPowSq(y, 252) = x

\* base ** exponent for base in {0, 1} and exponent >= 0.
FloatPow(base, exponent) ==
    IF base = One \/ exponent = Zero THEN One ELSE Zero

\* Faulty variant: the trailing `- 1` left out.
FeeAdjustGross(series, factor) ==
    [k \in 1 .. Len(series) |-> RMul(RAdd(One, series[k]), factor)]

\* Lines 12 and 20: port_returns = (1 + port_returns) * factor - 1.
FeeAdjust(series, factor) ==
    [k \in 1 .. Len(series) |-> RSub(RMul(RAdd(One, series[k]), factor), One)]

\* Lines 15-20: `if expense_ratios:` is false for None and for {}.
Truthy(d) == ~IsNone(d) /\ d # EmptyDict

\* Lines 16-20: the loop over weights.items(), tickers T still to come.
RECURSIVE DeductExpenseRatios(_, _, _, _)
DeductExpenseRatios(series, T, w, ers) ==
    IF T = {} THEN series
    ELSE LET ticker == CHOOSE t \in T : TRUE
             er == DictGet(ers, ticker, Zero)
             next == IF RGtZero(er)
                     THEN FeeAdjust(series,
                                    FloatPow(Root252(RSub(One, er)), w[ticker]))
                     ELSE series
         IN  DeductExpenseRatios(next, T \ {ticker}, w, ers)

\* Lines 4-22, for price columns that all have a weight.
calculate_portfolio_returns(a) ==
    LET raw == RawReturns(a.prices, a.weights)
        after_advisory == FeeAdjust(raw, Root252(RSub(One, a.advisory_fee)))
    IN  IF Truthy(a.expense_ratios)
        THEN DeductExpenseRatios(after_advisory, DOMAIN a.weights, a.weights,
                                 a.expense_ratios)
        ELSE after_advisory

\* Line 38: (1 + port_returns).cumprod().
RECURSIVE CumProd(_)
CumProd(series) ==
    IF series = <<>> THEN <<>>
    ELSE LET n == Len(series)
             before == CumProd(SubSeq(series, 1, n - 1))
             gross == RAdd(One, series[n])
         IN  Append(before,
                    IF n = 1 THEN gross ELSE RMul(before[n - 1], gross))

\* Line 43: cumulative.cummax().
RECURSIVE CumMax(_)
CumMax(curve) ==
    IF curve = <<>> THEN <<>>
    ELSE LET n == Len(curve)
             before == CumMax(SubSeq(curve, 1, n - 1))
         IN  Append(before,
                    IF n = 1 THEN curve[n] ELSE RMax(before[n - 1], curve[n]))

\* The least element of a non-empty sequence.
RECURSIVE SeqMin(_)
SeqMin(seq) ==
    IF Len(seq) = 1 THEN seq[1] ELSE RMin(seq[1], SeqMin(Tail(seq)))

\* Faulty variant: the ratio to the running peak, without the `- 1`.
DrawdownsAsRatio(cumulative) ==
    [k \in 1 .. Len(cumulative) |->
        RDiv(cumulative[k], CumMax(cumulative)[k])]

\* Line 43: (cumulative / cumulative.cummax()) - 1.
Drawdowns(cumulative) ==
    [k \in 1 .. Len(cumulative) |->
        RSub(RDiv(cumulative[k], CumMax(cumulative)[k]), One)]

\* Lines 37-51 for a non-empty series: the total return, the maximum drawdown
\* and the cumulative curve.  The annualized return, the volatility and the
\* Sharpe ratio are powers and roots of these and are not carried.
performance_stats(series) ==
    LET cumulative == CumProd(series)
    IN  [ total_return |-> RSub(cumulative[Len(cumulative)], One),
          max_drawdown |-> SeqMin(Drawdowns(cumulative)),
          cumulative |-> cumulative ]

\* The inputs.
PriceTickers == {"SPY", "BND"}

PricePoints == {One, Rat(2, 1)}

PriceColumns(n) ==
    {col \in [1 .. n -> PricePoints \cup {NaN}] :
        \A i \in 1 .. (n - 1) : IsNaN(col[i + 1]) => IsNaN(col[i])}

PriceFrames ==
    UNION {[cols -> PriceColumns(n)] :
              cols \in (SUBSET PriceTickers) \ {{}}, n \in 0 .. MaxRows}

WeightDicts == UNION {[T -> {Half, One}] : T \in SUBSET PriceTickers}

ExpenseRatioDicts ==
    { None, EmptyDict, [t \in {"SPY"} |-> One],
      [t \in {"SPY", "BND"} |-> IF t = "SPY" THEN Zero ELSE One] }

ReturnsArgs ==
    [ prices : PriceFrames,
      weights : WeightDicts,
      advisory_fee : {Zero, One},
      expense_ratios : ExpenseRatioDicts ]

PeriodReturns == {RNeg(Half), Zero, Half}

ReturnSeries == UNION {[1 .. n -> PeriodReturns] : n \in 0 .. MaxPeriods}

\* A call of calculate_portfolio_returns, or a call of performance_stats on
\* a series of the caller's.
ReturnsInit ==
    /\ \/ /\ rpc = "returns_call"
          /\ returns_args \in ReturnsArgs
          /\ port_returns = None
       \/ /\ rpc = "stats_call"
          /\ returns_args = None
          /\ port_returns \in ReturnSeries
    /\ stats = None
    /\ ProjectorIdle
    /\ AggregateIdle
    /\ AnalyzeIdle
    /\ ConcurrentIdle

\* Lines 4-22: every column of the frame has a weight; the series is returned.
CalculateReturns ==
    /\ rpc = "returns_call"
    /\ DOMAIN returns_args.prices \subseteq DOMAIN returns_args.weights
    /\ port_returns' = calculate_portfolio_returns(returns_args)
    /\ rpc' = "returned"
    /\ UNCHANGED <<returns_args, stats, exceptReturns>>

\* Line 7: weights[col] raises KeyError for a column without a weight.
CalculateRaises ==
    /\ rpc = "returns_call"
    /\ ~(DOMAIN returns_args.prices \subseteq DOMAIN returns_args.weights)
    /\ rpc' = "raised"
    /\ UNCHANGED <<returns_args, port_returns, stats, exceptReturns>>

\* Lines 37-51 on a non-empty series.
Summarize ==
    /\ rpc = "stats_call"
    /\ port_returns # <<>>
    /\ stats' = performance_stats(port_returns)
    /\ rpc' = "returned"
    /\ UNCHANGED <<returns_args, port_returns, exceptReturns>>

\* Line 39: cumulative.iloc[-1] raises IndexError on an empty series.
SummarizeRaises ==
    /\ rpc = "stats_call"
    /\ port_returns = <<>>
    /\ rpc' = "raised"
    /\ UNCHANGED <<returns_args, port_returns, stats, exceptReturns>>

NextReturns ==
    \/ CalculateReturns
    \/ CalculateRaises
    \/ Summarize
    \/ SummarizeRaises

SpecReturns == ReturnsInit /\ [][NextReturns]_vars

(***************************************************************************)
(* Properties of the return calculator and of the summary.                 *)
(***************************************************************************)
\* The calculator has returned a series.
SeriesReturned == rpc = "returned" /\ ~IsNone(returns_args)

\* The number of prices a column holds.
PricePointsOf(col) == Cardinality({i \in 1 .. Len(col) : ~IsNaN(col[i])})

\* C13: the return calculator returns no series (it fails) whenever a ticker
\* named in the weights has no column or no price in the frame, or has fewer
\* than 2 prices.
C13_MissingDataRejected ==
    SeriesReturned =>
        \A t \in DOMAIN returns_args.weights :
            /\ t \in DOMAIN returns_args.prices
            /\ PricePointsOf(returns_args.prices[t]) >= 2

\* performance_stats has returned.
Summarized == rpc = "returned" /\ ~IsNone(stats)

\* The product of (1 + return) over the first k periods of a series.
RECURSIVE GrossProduct(_, _)
GrossProduct(series, k) ==
    IF k = 0 THEN One
    ELSE RMul(GrossProduct(series, k - 1), RAdd(One, series[k]))

\* C14: for a non-empty return series max_drawdown <= 0; the cumulative curve
\* has one point per period, the running product of (1 + return); and for a
\* constant series r over n periods total_return = (1+r)^n - 1 and, when
\* r >= 0, max_drawdown = 0.
C14_SummaryOfSeries ==
    Summarized =>
        LET n == Len(port_returns)
            r == port_returns[1]
        IN  /\ RLeq(stats.max_drawdown, Zero)
            /\ Len(stats.cumulative) = n
            /\ \A k \in 1 .. n :
                  stats.cumulative[k] = GrossProduct(port_returns, k)
            /\ (\A k \in 1 .. n : port_returns[k] = r) =>
                  /\ stats.total_return = RSub(RPow(RAdd(One, r), n), One)
                  /\ RLeq(Zero, r) => stats.max_drawdown = Zero

C14_Witness ==
    /\ Summarized
    /\ Len(port_returns) = MaxPeriods
    /\ \A k \in 1 .. Len(port_returns) : port_returns[k] = Half
    /\ stats.max_drawdown = Zero
    /\ stats.total_return # Zero

\* A series that rises, falls and recovers has been summarised: its
\* drawdown is negative although it ends above its start.
C14_DrawdownWitness ==
    /\ Summarized
    /\ RLeq(stats.max_drawdown, Zero)
    /\ stats.max_drawdown # Zero
    /\ RGtZero(stats.total_return)

\* C15: with advisory_fee = 0 and an empty expense-ratio mapping the returned
\* series is the raw weighted return series, period for period.
C15_NoFeesIsIdentity ==
    ( /\ SeriesReturned
      /\ returns_args.advisory_fee = Zero
      /\ returns_args.expense_ratios = EmptyDict ) =>
        port_returns = RawReturns(returns_args.prices, returns_args.weights)

C15_Witness ==
    /\ SeriesReturned
    /\ returns_args.advisory_fee = Zero
    /\ returns_args.expense_ratios = EmptyDict
    /\ Len(port_returns) = 2
    /\ port_returns[1] # Zero
    /\ port_returns[2] # port_returns[1]
    /\ Cardinality(DOMAIN returns_args.prices) = 2

(***************************************************************************)
(* analyze_portfolio (portfolio.py, lines 46-183).  The historical         *)
(* performance, the similarity score and the detailed holdings come from   *)
(* collaborators and are passed through to the response unread; they are   *)
(* not carried.                                                            *)
(***************************************************************************)
\* Lines 105-114: the projection of the request's portfolio.
AnalyzeCurrentProjection(req, current_portfolio) ==
    project_portfolio_with_taxes(
        [ asset_class_allocation |-> current_portfolio.asset_class_allocation,
          growth_rates |-> growth_rates,
          total_fee_rate |->
              RAdd(current_portfolio.weighted_avg_er, current_portfolio.advisory_fee),
          initial_value |-> current_portfolio.total_value,
          annual_cash_flow |-> req.annual_cash_flow,
          tax_rate |-> req.tax_rate,
          account_type |-> req.account_type,
          years |-> ProjectionYears ])

\* Lines 117-126: the projection of the matched model portfolio.
AnalyzeModelProjection(req, model_portfolio) ==
    project_portfolio_with_taxes(
        [ asset_class_allocation |-> model_portfolio.asset_class_allocation,
          growth_rates |-> growth_rates,
          total_fee_rate |->
              RAdd(model_portfolio.weighted_avg_er, model_portfolio.advisory_fee),
          initial_value |-> model_portfolio.total_value,
          annual_cash_flow |-> req.annual_cash_flow,
          tax_rate |-> req.tax_rate,
          account_type |-> req.account_type,
          years |-> ProjectionYears ])

\* The requests the handler is given.
AnalyzeHoldings ==
    { EmptyDict,
      [t \in {"SPY"} |-> One],
      [t \in {"BND"} |-> Rat(2, 1)],
      [t \in {"SPY", "BND"} |-> One],
      [t \in {"VTI"} |-> One],
      [t \in {"SPY"} |-> Zero] }

AnalyzeRequests ==
    [ holdings : AnalyzeHoldings,
      advisory_fee : {Zero, Half},
      asset_class_overrides : {EmptyDict, [t \in {"SPY"} |-> "Bond"]},
      account_type : AccountTypes,
      annual_cash_flow : {Rat(-1, 1), Zero, One},
      tax_rate : {Zero, One} ]

AnalyzeInit ==
    /\ analyze_request \in AnalyzeRequests
    /\ apc = "start"
    /\ analyze_response = None
    /\ ProjectorIdle
    /\ AggregateIdle
    /\ ReturnsIdle
    /\ ConcurrentIdle

\* Lines 50-51: a request without holdings is refused outside the try block.
AnalyzeRejects ==
    /\ apc = "start"
    /\ analyze_request.holdings = EmptyDict
    /\ analyze_response' =
           [ status_code |-> 400,
             detail |-> "Portfolio must have at least one holding" ]
    /\ apc' = "done"
    /\ UNCHANGED <<analyze_request, exceptAnalyze>>

\* Lines 53-183 and 185-186: a collaborator (the Portfolio class, the matcher,
\* the historical analysis) raises inside the try block.
AnalyzeRaises ==
    /\ apc = "start"
    /\ analyze_request.holdings # EmptyDict
    /\ analyze_response' = [status_code |-> 500, detail |-> "Analysis failed"]
    /\ apc' = "done"
    /\ UNCHANGED <<analyze_request, exceptAnalyze>>

\* Lines 53-183: the analysis runs to its response (the matcher is a black
\* box: any model may be the best match).
Analyze ==
    /\ apc = "start"
    /\ analyze_request.holdings # EmptyDict
    /\ PortfolioDefined(analyze_request.holdings)
    /\ \E model_name \in DOMAIN model_portfolios :
          LET current_portfolio ==
                  Portfolio(analyze_request.holdings, analyze_request.advisory_fee,
                            analyze_request.asset_class_overrides)
              model_allocations == model_portfolios[model_name]
              total_value == RSumFn(analyze_request.holdings)
              model_portfolio ==
                  Portfolio([t \in DOMAIN model_allocations |->
                                RMul(total_value, model_allocations[t])],
                            model_fee, EmptyDict)
              current_projection ==
                  AnalyzeCurrentProjection(analyze_request, current_portfolio)
              model_projection ==
                  AnalyzeModelProjection(analyze_request, model_portfolio)
              current_annual_fee ==
                  RMul(RAdd(current_portfolio.weighted_avg_er,
                            current_portfolio.advisory_fee),
                       current_portfolio.total_value)
              model_annual_fee ==
                  RMul(RAdd(model_portfolio.weighted_avg_er,
                            model_portfolio.advisory_fee),
                       model_portfolio.total_value)
          IN  analyze_response' =
                  [ status_code |-> 200,
                    current_portfolio |->
                        [ total_value |-> current_portfolio.total_value,
                          weights |-> current_portfolio.portfolio_weights,
                          weighted_avg_er |-> current_portfolio.weighted_avg_er,
                          asset_class_allocation |->
                              current_portfolio.asset_class_allocation,
                          advisory_fee |-> analyze_request.advisory_fee ],
                    model_portfolio |->
                        [ total_value |-> model_portfolio.total_value,
                          weights |-> model_portfolio.portfolio_weights,
                          weighted_avg_er |-> model_portfolio.weighted_avg_er,
                          asset_class_allocation |->
                              model_portfolio.asset_class_allocation,
                          advisory_fee |-> model_fee ],
                    model_name |-> model_name,
                    projections |->
                        [current |-> current_projection, model |-> model_projection],
                    fee_analysis |->
                        [ current_annual_fee |-> current_annual_fee,
                          model_annual_fee |-> model_annual_fee,
                          annual_savings |-> RSub(current_annual_fee, model_annual_fee),
                          current_total_fees |-> current_projection.total_fees,
                          model_total_fees |-> model_projection.total_fees ] ]
    /\ apc' = "done"
    /\ UNCHANGED <<analyze_request, exceptAnalyze>>

NextAnalyze ==
    \/ AnalyzeRejects
    \/ AnalyzeRaises
    \/ Analyze

SpecAnalyze == AnalyzeInit /\ [][NextAnalyze]_vars

\* The handler has answered with an analysis.
Analyzed ==
    /\ apc = "done"
    /\ analyze_response.status_code = 200

\* C18: whatever annual_cash_flow the request carries, the model portfolio's
\* projection is run with an annual cash flow of 0 and with the tax rate of
\* the current portfolio's projection, the request's.
C18_ModelProjectionWithoutCashFlow ==
    Analyzed =>
        LET model == analyze_response.projections.model
            model_portfolio == analyze_response.model_portfolio
        IN  /\ model.total_cash_flows = Zero
            /\ \A k \in 1 .. Len(model.yearly_projections) :
                  model.yearly_projections[k].cash_flow = Zero
            /\ model =
                  project_portfolio_with_taxes(
                      [ asset_class_allocation |->
                            model_portfolio.asset_class_allocation,
                        growth_rates |-> growth_rates,
                        total_fee_rate |->
                            RAdd(model_portfolio.weighted_avg_er,
                                 model_portfolio.advisory_fee),
                        initial_value |-> model_portfolio.total_value,
                        annual_cash_flow |-> Zero,
                        tax_rate |-> analyze_request.tax_rate,
                        account_type |-> analyze_request.account_type,
                        years |-> ProjectionYears ])

(***************************************************************************)
(* Two requests in flight at once: each is a call of the projector or a    *)
(* run of the aggregate handler, and their steps interleave in any order.  *)
(* Every local variable of the code belongs to one call; the objects that  *)
(* outlive a call are the dicts it is handed: the growth-rate table of     *)
(* analytics.models, which every request passes on, and the caller's       *)
(* allocation.  The requests are ones the handlers accept.                 *)
(***************************************************************************)
Procs == {1, 2}

\* Faulty variant: the entries consumed as they are read.
MappingEmptiedByRead(mapping) == EmptyDict

\* Lines 188-191 read the two dicts with .items() and .get(); nothing in
\* lines 187-265 assigns to them or calls a method that changes them.
MappingAfterRead(mapping) == mapping

\* The dicts after the projector has been called with the table and, for a
\* direct call, with the allocation of call i.
AfterProjectorCall(m, i) ==
    [ growth_rates |-> MappingAfterRead(m.growth_rates),
      allocations |->
          [j \in DOMAIN m.allocations |->
              IF j = i /\ calls[i].kind = "project"
              THEN MappingAfterRead(m.allocations[j])
              ELSE m.allocations[j]] ]

\* The arguments of direct call i, its dicts as they stand.
ArgsNow(i) ==
    [calls[i].args EXCEPT !.asset_class_allocation = mappings.allocations[i],
                          !.growth_rates = mappings.growth_rates]

ConcurrentProjectorArgs ==
    [ asset_class_allocation : Allocations,
      growth_rates : {growth_rates},
      total_fee_rate : {Quarter},
      initial_value : {One},
      annual_cash_flow : {One},
      tax_rate : {Half},
      account_type : {"Brokerage", "Traditional IRA"},
      years : {2} ]

ConcurrentAggregateRequests ==
    [ portfolios :
          LET some == {p \in SamplePortfolios :
                          /\ PortfolioDefined(p.holdings)
                          /\ p.asset_class_overrides = EmptyDict
                          /\ p.advisory_fee = Zero}
          IN  [1 .. 1 -> some] \cup
              {q \in [1 .. 2 -> some] : q[1].account_type = "Brokerage"},
      tax_rate : {One} ]

NewCalls ==
    { [ kind |-> "project", args |-> a, pc |-> "call", year |-> 0,
        locals |-> None, result |-> None ] : a \in ConcurrentProjectorArgs }
    \cup
    { [ kind |-> "aggregate", request |-> r, hpc |-> "start", handler |-> None,
        p_index |-> 0, aggregate_projections |-> None, response |-> None ] :
        r \in ConcurrentAggregateRequests }

ConcurrentInit ==
    /\ calls \in [Procs -> NewCalls]
    /\ mappings =
           [ growth_rates |-> growth_rates,
             allocations |->
                 [i \in Procs |->
                     IF calls[i].kind = "project"
                     THEN calls[i].args.asset_class_allocation
                     ELSE EmptyDict] ]
    /\ ProjectorIdle
    /\ AggregateIdle
    /\ ReturnsIdle
    /\ AnalyzeIdle

\* performance.py lines 187-204, in call i.
ConcurrentEnter(i) ==
    /\ calls[i].kind = "project"
    /\ calls[i].pc = "call"
    /\ calls' = [calls EXCEPT ![i].locals = InitialLocals(ArgsNow(i)),
                              ![i].year = 1,
                              ![i].pc = "loop"]
    /\ mappings' = AfterProjectorCall(mappings, i)
    /\ UNCHANGED exceptConcurrent

\* Lines 206-254, one iteration, in call i.
ConcurrentIterate(i) ==
    /\ calls[i].kind = "project"
    /\ calls[i].pc = "loop"
    /\ InRange(calls[i].year, calls[i].args.years)
    /\ calls' = [calls EXCEPT
                    ![i].locals = LoopBody(ArgsNow(i), calls[i].year, calls[i].locals),
                    ![i].year = calls[i].year + 1]
    /\ UNCHANGED <<mappings, exceptConcurrent>>

\* Lines 256-265, in call i.
ConcurrentReturn(i) ==
    /\ calls[i].kind = "project"
    /\ calls[i].pc = "loop"
    /\ ~InRange(calls[i].year, calls[i].args.years)
    /\ calls' = [calls EXCEPT
                    ![i].result = ReturnValue(ArgsNow(i), calls[i].locals),
                    ![i].pc = "done"]
    /\ UNCHANGED <<mappings, exceptConcurrent>>

\* portfolio.py lines 208-277, in request i.
ConcurrentCombine(i) ==
    /\ calls[i].kind = "aggregate"
    /\ calls[i].hpc = "start"
    /\ \E model_name \in DOMAIN model_portfolios :
          calls' = [calls EXCEPT
                       ![i].handler = HandlerLocals(calls[i].request, model_name),
                       ![i].p_index = 1,
                       ![i].hpc = "loop"]
    /\ UNCHANGED <<mappings, exceptConcurrent>>

\* Lines 279-343, one iteration, in request i.
ConcurrentProjectOne(i) ==
    /\ calls[i].kind = "aggregate"
    /\ calls[i].hpc = "loop"
    /\ calls[i].p_index <= Len(calls[i].request.portfolios)
    /\ calls' = [calls EXCEPT
                    ![i].aggregate_projections =
                        AfterProjectOne(
                            calls[i].request.portfolios[calls[i].p_index],
                            calls[i].request.tax_rate,
                            calls[i].aggregate_projections,
                            mappings.growth_rates),
                    ![i].p_index = calls[i].p_index + 1]
    /\ mappings' = AfterProjectorCall(mappings, i)
    /\ UNCHANGED exceptConcurrent

\* Lines 345-404, in request i.
ConcurrentRespond(i) ==
    /\ calls[i].kind = "aggregate"
    /\ calls[i].hpc = "loop"
    /\ calls[i].p_index > Len(calls[i].request.portfolios)
    /\ calls' = [calls EXCEPT
                    ![i].response =
                        ResponseOf(calls[i].request, calls[i].handler,
                                   calls[i].aggregate_projections,
                                   mappings.growth_rates),
                    ![i].hpc = "done"]
    /\ mappings' = AfterProjectorCall(mappings, i)
    /\ UNCHANGED exceptConcurrent

NextConcurrent ==
    \/ \E i \in Procs : ConcurrentEnter(i)
    \/ \E i \in Procs : ConcurrentIterate(i)
    \/ \E i \in Procs : ConcurrentReturn(i)
    \/ \E i \in Procs : ConcurrentCombine(i)
    \/ \E i \in Procs : ConcurrentProjectOne(i)
    \/ \E i \in Procs : ConcurrentRespond(i)

SpecConcurrent == ConcurrentInit /\ [][NextConcurrent]_vars

(***************************************************************************)
(* Isolation of requests.                                                  *)
(***************************************************************************)
\* The aggregate of a request run alone, after its first k portfolios.
RECURSIVE AggregateAlone(_, _)
AggregateAlone(req, k) ==
    IF k = 0 THEN None
    ELSE AfterProjectOne(req.portfolios[k], req.tax_rate,
                         AggregateAlone(req, k - 1), growth_rates)

\* What a request produces when it runs alone.
ResultAlone(c) ==
    IF c.kind = "project" THEN project_portfolio_with_taxes(c.args)
    ELSE ResponseOf(c.request, HandlerLocals(c.request, c.handler.model_name),
                    AggregateAlone(c.request, Len(c.request.portfolios)),
                    growth_rates)

\* The result of a request, None while it runs.
ResultOf(c) == IF c.kind = "project" THEN c.result ELSE c.response

\* C16: whatever the interleaving of two requests, each one's result is the
\* result it produces when run alone, and no step changes the allocation or
\* growth-rate dicts the projector is handed.
C16_RequestsIsolated ==
    /\ [](\A i \in Procs :
            ~IsNone(ResultOf(calls[i])) => ResultOf(calls[i]) = ResultAlone(calls[i]))
    /\ [][mappings' = mappings]_vars

\* One request has finished while the other, started before, is midway.
C16_Witness ==
    /\ calls[1].kind = "project"
    /\ calls[2].kind = "aggregate"
    /\ calls[1].pc = "done"
    /\ Len(calls[1].result.yearly_projections) = 2
    /\ calls[2].hpc = "loop"
    /\ calls[2].p_index = 2
    /\ Len(calls[2].request.portfolios) = 2
    /\ ~IsNone(calls[2].aggregate_projections)

(***************************************************************************)
(* The projector below zero.                                               *)
(***************************************************************************)
\* x < 0.
RLtZero(x) == x[1] < 0

\* The balance of a yearly record after growth, and after taxes.
AfterGrowth(rec) == RAdd(rec.after_cash_flow, rec.growth)

AfterTaxes(rec) == RSub(AfterGrowth(rec), rec.taxes)

\* C21: nothing is floored at zero.  For a Brokerage account with
\* tax_rate > 0, a year whose growth is negative (a negative blended return,
\* or a balance driven below zero by withdrawals) has negative taxes,
\* growth * tax_rate, which lift the balance after taxes above the balance
\* after growth; the year ends on that balance less its fees, and an
\* ending_value, negative or not, is the next year's starting_value.
C21_NoFloorAtZero ==
    /\ \A i \in 1 .. Len(Ledger) :
          /\ Ledger[i].growth =
                 RMul(Ledger[i].after_cash_flow, locals.weighted_annual_return)
          /\ ( /\ args.account_type = "Brokerage"
               /\ RGtZero(args.tax_rate)
               /\ RLtZero(Ledger[i].growth) ) =>
                 /\ RLtZero(Ledger[i].taxes)
                 /\ Ledger[i].taxes = RMul(Ledger[i].growth, args.tax_rate)
                 /\ RGtZero(RSub(AfterTaxes(Ledger[i]), AfterGrowth(Ledger[i])))
    /\ \A i \in 1 .. Len(Ledger) :
          Ledger[i].ending_value = RSub(AfterTaxes(Ledger[i]), Ledger[i].fees)
    /\ \A i \in 1 .. (Len(Ledger) - 1) :
          Ledger[i + 1].starting_value = Ledger[i].ending_value
    /\ Returned => result.final_portfolio_value = locals.portfolio_value

\* A Brokerage account overdrawn by its withdrawals: a year with a negative
\* balance and a positive blended return has negative growth and negative
\* taxes, ends below zero, and the next year starts from that value.
C21_Witness ==
    /\ Returned
    /\ args.account_type = "Brokerage"
    /\ RGtZero(args.tax_rate)
    /\ RGtZero(locals.weighted_annual_return)
    /\ \E i \in 1 .. (Len(Ledger) - 1) :
          /\ RLtZero(Ledger[i].after_cash_flow)
          /\ RLtZero(Ledger[i].growth)
          /\ RLtZero(Ledger[i].taxes)
          /\ RLtZero(Ledger[i].ending_value)
          /\ Ledger[i + 1].starting_value = Ledger[i].ending_value
    /\ RLtZero(result.final_portfolio_value)
    /\ RLtZero(result.total_taxes)

\* The other cause: a negative blended return on a positive balance.
C21_NegativeReturnWitness ==
    /\ Returned
    /\ args.account_type = "Brokerage"
    /\ RGtZero(args.tax_rate)
    /\ RLtZero(locals.weighted_annual_return)
    /\ \E i \in 1 .. Len(Ledger) :
          /\ RGtZero(Ledger[i].after_cash_flow)
          /\ RLtZero(Ledger[i].taxes)
=============================================================================
